---- MODULE Spec2Model ----
(***************************************************************************)
(* Model of src/Insta.py: InstagramStoryScheduler.                         *)
(*                                                                         *)
(* The caller thread runs schedule_story, cancel_scheduled_story and       *)
(* modify_scheduled_story; none of them blocks, so each is one step.  The  *)
(* background scheduler runs post_story on its own thread; post_story      *)
(* blocks on two network calls, so it is three steps: the timer fires (the *)
(* one-shot job leaves the job store and post_story starts), the upload    *)
(* call returns, the create-story call returns.  Caller steps interleave   *)
(* freely with these.  cancel_scheduled_story is two steps, because the    *)
(* callback thread can run between its test of the status (line 116) and   *)
(* its write of the status (line 117).  A restart is a new process:        *)
(* __init__ reloads the list from the file, the in-memory job store and    *)
(* the running callbacks of the old process are gone.                      *)
(***************************************************************************)
EXTENDS Integers, Sequences, FiniteSets, TLC

VARIABLES
    scheduled_stories,  \* self.scheduled_stories: sequence of story dicts
    store_exists,       \* scheduled_stories.json exists
    store,              \* content of scheduled_stories.json (JSON array)
    jobs,               \* pending jobs of self.scheduler
    execs,              \* post_story invocations in flight
    caller,             \* where the caller thread is: idle, or inside cancel
    last,               \* the step taken last: operation, argument, outcome
    starts,             \* history: how often post_story was started, per id
    cancelled_ok        \* history: ids for which cancel returned True

vars == <<scheduled_stories, store_exists, store, jobs, execs, caller, last,
          starts, cancelled_ok>>

-----------------------------------------------------------------------------
(* Bounds and input domains *)

MaxStories == 2

\* datetimes passed as scheduled_time / new_time
Times == {1, 2}

ExistingFiles == {"a.jpg"}

Paths == {"a.jpg", "missing.jpg"}

Captions == {"", "hi"}

ErrorTexts == {"HTTPError"}

StoryIds == 1..MaxStories

\* None for the optional new_time and new_caption of modify_scheduled_story
NoTime == 0

NoCaption == "<None>"

Terminal == {"posted", "failed", "cancelled"}

-----------------------------------------------------------------------------
(* Conversions *)

\* datetime.isoformat(): the stored scheduled_time is a string, not a datetime
isoformat(t) == <<"iso", t>>

\* str(story_id): jobs are keyed by the decimal string of the id
str(n) == <<"str", n>>

KeyOrder == <<"id", "media_path", "scheduled_time", "caption", "status", "error">>

\* json.dump of one dict: its items in insertion order
json_dump_dict(d) ==
    LET keys == SelectSeq(KeyOrder, LAMBDA k : k \in DOMAIN d)
    IN  [i \in 1..Len(keys) |-> <<keys[i], d[keys[i]]>>]

\* json.dump of the list
json_dump(l) == [i \in 1..Len(l) |-> json_dump_dict(l[i])]

\* mutant: the optional error item is not read back
json_load_dict_known_keys(o) ==
    [k \in {o[i][1] : i \in 1..Len(o)} \ {"error"} |->
        (CHOOSE v \in {o[i][2] : i \in {j \in 1..Len(o) : o[j][1] = k}} : TRUE)]

\* json.load of one object
json_load_dict(o) ==
    [k \in {o[i][1] : i \in 1..Len(o)} |->
        (CHOOSE v \in {o[i][2] : i \in {j \in 1..Len(o) : o[j][1] = k}} : TRUE)]

\* json.load of the array
json_load(a) == [i \in 1..Len(a) |-> json_load_dict(a[i])]

-----------------------------------------------------------------------------
(* Helpers *)

Event(op, id, pos, time, result) ==
    [op |-> op, id |-> id, pos |-> pos, time |-> time, result |-> result]

\* d[k] = v on a dict
SetItem(d, k, v) == [x \in DOMAIN d \cup {k} |-> IF x = k THEN v ELSE d[x]]

\* the list with d[k] = v done on the dict at position p
SetField(l, p, k, v) == [l EXCEPT ![p] = SetItem(l[p], k, v)]

Bump(s, id) == IF id \in DOMAIN s THEN [s EXCEPT ![id] = IF @ < 2 THEN @ + 1 ELSE @]
               ELSE s

JobIds(js) == {j.id : j \in js}

\* the caller thread is in no operation
Idle == [op |-> "idle", id |-> 0, pos |-> 0]

Init ==
    /\ scheduled_stories = <<>>
    /\ store_exists = FALSE
    /\ store = <<>>
    /\ jobs = {}
    /\ execs = {}
    /\ caller = Idle
    /\ last = Event("init", 0, 0, 0, "ok")
    /\ starts = [i \in StoryIds |-> 0]
    /\ cancelled_ok = {}

-----------------------------------------------------------------------------
(* schedule_story *)

\* mutant: the existence check always passes
path_exists_always(media_path) == media_path \in Paths

path_exists(media_path) == media_path \in ExistingFiles

\* mutant: id from the count before the append, zero-based
next_id_zero_based(l) == Len(l)

next_id(l) == Len(l) + 1

new_story(l, media_path, scheduled_time, caption) ==
    [id |-> next_id(l),
     media_path |-> media_path,
     scheduled_time |-> isoformat(scheduled_time),
     caption |-> caption,
     status |-> "scheduled"]

\* mutant: the job is never registered
add_job_dropped(js, id, run_date, arg) == js

\* scheduler.add_job(func=post_story, trigger=DateTrigger(run_date), args=[story_data], id=...)
add_job(js, id, run_date, arg) ==
    js \cup {[id |-> id, run_date |-> run_date, arg |-> arg]}

schedule_story(media_path, scheduled_time, caption) ==
    IF ~path_exists(media_path)
    THEN /\ caller = Idle
         /\ last' = Event("schedule", 0, 0, 0, "FileNotFoundError")
         /\ UNCHANGED <<scheduled_stories, store_exists, store, jobs, execs,
                        caller, starts, cancelled_ok>>
    ELSE /\ caller = Idle
         /\ Len(scheduled_stories) < MaxStories
         /\ LET story_data == new_story(scheduled_stories, media_path,
                                        scheduled_time, caption)
                pos == Len(scheduled_stories) + 1
            IN  /\ scheduled_stories' = Append(scheduled_stories, story_data)
                /\ store_exists' = TRUE
                /\ store' = json_dump(scheduled_stories')
                /\ IF str(story_data.id) \in JobIds(jobs)
                   THEN \* ConflictingIdError from add_job
                        /\ jobs' = jobs
                        /\ last' = Event("schedule", story_data.id, pos,
                                         0, "ConflictingIdError")
                   ELSE /\ jobs' = add_job(jobs, str(story_data.id),
                                           scheduled_time, pos)
                        /\ last' = Event("schedule", story_data.id, pos,
                                         0, "returned")
         /\ UNCHANGED <<execs, caller, starts, cancelled_ok>>

-----------------------------------------------------------------------------
(* cancel_scheduled_story *)

\* mutant: the status is not looked at
cancel_match_any_status(story, story_id) == story.id = story_id

cancel_match(story, story_id) ==
    story.id = story_id /\ story.status = "scheduled"

\* mutant: the job is left in the job store
remove_job_kept(js, job_id) == js

\* scheduler.remove_job(job_id)
remove_job(js, job_id) == {j \in js : j.id # job_id}

\* the loop up to the test of line 116: no match returns False, a match
\* leaves the caller in front of the write of line 117
cancel_scheduled_story(story_id) ==
    LET hits == {p \in 1..Len(scheduled_stories) :
                    cancel_match(scheduled_stories[p], story_id)}
    IN  /\ caller = Idle
        /\ IF hits = {}
           THEN /\ last' = Event("cancel", story_id, 0, 0, "False")
                /\ caller' = caller
           ELSE LET p == CHOOSE q \in hits : \A r \in hits : q <= r
                IN  /\ last' = Event("cancel", story_id, p, 0, "matched")
                    /\ caller' = [op |-> "cancel", id |-> story_id, pos |-> p]
        /\ UNCHANGED <<scheduled_stories, store_exists, store, jobs, execs,
                       starts, cancelled_ok>>

\* lines 117-120: the write of the status, remove_job, save, return True
cancel_write ==
    /\ caller.op = "cancel"
    /\ caller' = Idle
    /\ scheduled_stories' =
           SetField(scheduled_stories, caller.pos, "status", "cancelled")
    /\ IF str(caller.id) \in JobIds(jobs)
       THEN /\ jobs' = remove_job(jobs, str(caller.id))
            /\ store_exists' = TRUE
            /\ store' = json_dump(scheduled_stories')
            /\ cancelled_ok' = cancelled_ok \cup {caller.id}
            /\ last' = Event("cancel", caller.id, caller.pos, 0, "True")
       ELSE \* JobLookupError from remove_job: no save
            /\ last' = Event("cancel", caller.id, caller.pos, 0, "JobLookupError")
            /\ UNCHANGED <<jobs, store_exists, store, cancelled_ok>>
    /\ UNCHANGED <<execs, starts>>

-----------------------------------------------------------------------------
(* modify_scheduled_story *)

\* mutant: the status is not looked at
modify_match_any_status(story, story_id) == story.id = story_id

modify_match(story, story_id) ==
    story.id = story_id /\ story.status = "scheduled"

\* mutant: a second job is registered and the first one stays
reschedule_job_duplicating(js, job_id, run_date) ==
    js \cup {[j EXCEPT !.run_date = run_date] : j \in {k \in js : k.id = job_id}}

\* scheduler.reschedule_job(job_id, trigger=DateTrigger(run_date))
reschedule_job(js, job_id, run_date) ==
    {IF j.id = job_id THEN [j EXCEPT !.run_date = run_date] ELSE j : j \in js}

\* mutant: `if new_caption:` instead of `is not None`
set_caption_if_truthy(l, p, new_caption) ==
    IF new_caption # NoCaption /\ new_caption # ""
    THEN SetField(l, p, "caption", new_caption) ELSE l

set_caption(l, p, new_caption) ==
    IF new_caption # NoCaption THEN SetField(l, p, "caption", new_caption) ELSE l

modify_scheduled_story(story_id, new_time, new_caption) ==
    LET hits == {p \in 1..Len(scheduled_stories) :
                    modify_match(scheduled_stories[p], story_id)}
    IN  IF hits = {}
        THEN /\ caller = Idle
             /\ last' = Event("modify", story_id, 0, 0, "ValueError")
             /\ UNCHANGED <<scheduled_stories, store_exists, store, jobs,
                            execs, caller, starts, cancelled_ok>>
        ELSE LET p == CHOOSE q \in hits : \A r \in hits : q <= r
                 timed == IF new_time # NoTime
                          THEN SetField(scheduled_stories, p, "scheduled_time",
                                        isoformat(new_time))
                          ELSE scheduled_stories
             IN  /\ caller = Idle
                 /\ IF new_time # NoTime /\ str(story_id) \notin JobIds(jobs)
                    THEN \* JobLookupError from reschedule_job: no caption, no save
                         /\ scheduled_stories' = timed
                         /\ last' = Event("modify", story_id, p, new_time,
                                          "JobLookupError")
                         /\ UNCHANGED <<jobs, store_exists, store>>
                    ELSE /\ jobs' = IF new_time # NoTime
                                    THEN reschedule_job(jobs, str(story_id), new_time)
                                    ELSE jobs
                         /\ scheduled_stories' = set_caption(timed, p, new_caption)
                         /\ store_exists' = TRUE
                         /\ store' = json_dump(scheduled_stories')
                         /\ last' = Event("modify", story_id, p, new_time, "returned")
                 /\ UNCHANGED <<execs, caller, starts, cancelled_ok>>

-----------------------------------------------------------------------------
(* post_story, run by the scheduler when the job's DateTrigger is due *)

\* mutant: the job stays in the job store after it has run
timer_fires_keeps_job(j) ==
    /\ j \in jobs
    /\ jobs' = jobs
    /\ execs' = execs \cup {[arg |-> j.arg, pc |-> "upload"]}
    /\ starts' = Bump(starts, j.id[2])
    /\ last' = Event("fire", j.id[2], j.arg, 0, "started")
    /\ UNCHANGED <<scheduled_stories, store_exists, store, caller, cancelled_ok>>

\* the job is due: it leaves the job store (a date trigger has no next run)
\* and post_story(story_data) starts with the upload call
timer_fires(j) ==
    /\ j \in jobs
    /\ jobs' = jobs \ {j}
    /\ execs' = execs \cup {[arg |-> j.arg, pc |-> "upload"]}
    /\ starts' = Bump(starts, j.id[2])
    /\ last' = Event("fire", j.id[2], j.arg, 0, "started")
    /\ UNCHANGED <<scheduled_stories, store_exists, store, caller, cancelled_ok>>

\* story_data['status'] = 'posted'
mark_posted(l, p) == SetField(l, p, "status", "posted")

\* mutant: only the error text is recorded
mark_failed_error_only(l, p, err) == SetField(l, p, "error", err)

\* except Exception as e: status = 'failed', error = str(e)
mark_failed(l, p, err) == SetField(SetField(l, p, "status", "failed"), p, "error", err)

\* upload_media returns or raises; outcome "id": response with a media id,
\* "no_id": response without one, "error": open/HTTP/network/JSON error
upload_media(e, outcome, err) ==
    /\ e \in execs
    /\ e.pc = "upload"
    /\ CASE outcome = "id" ->
              /\ execs' = (execs \ {e}) \cup {[e EXCEPT !.pc = "publish"]}
              /\ last' = Event("upload", scheduled_stories[e.arg].id, e.arg, 0, "id")
              /\ UNCHANGED <<scheduled_stories, store_exists, store>>
         [] outcome = "no_id" ->
              /\ execs' = execs \ {e}
              /\ last' = Event("upload", scheduled_stories[e.arg].id, e.arg, 0, "no_id")
              /\ UNCHANGED <<scheduled_stories, store_exists, store>>
         [] outcome = "error" ->
              /\ execs' = execs \ {e}
              /\ scheduled_stories' = mark_failed(scheduled_stories, e.arg, err)
              /\ store_exists' = TRUE
              /\ store' = json_dump(scheduled_stories')
              /\ last' = Event("upload", scheduled_stories[e.arg].id, e.arg, 0, "raised")
    /\ UNCHANGED <<jobs, caller, starts, cancelled_ok>>

\* the create-story request returns ("ok") or raise_for_status/network raises
create_story(e, outcome, err) ==
    /\ e \in execs
    /\ e.pc = "publish"
    /\ execs' = execs \ {e}
    /\ scheduled_stories' = IF outcome = "ok"
                            THEN mark_posted(scheduled_stories, e.arg)
                            ELSE mark_failed(scheduled_stories, e.arg, err)
    /\ store_exists' = TRUE
    /\ store' = json_dump(scheduled_stories')
    /\ last' = Event("publish", scheduled_stories[e.arg].id, e.arg, 0,
                     IF outcome = "ok" THEN "returned" ELSE "raised")
    /\ UNCHANGED <<jobs, caller, starts, cancelled_ok>>

-----------------------------------------------------------------------------
(* __init__ of a new process *)

\* mutant: the file is ignored
load_scheduled_stories_fresh == <<>>

load_scheduled_stories == IF store_exists THEN json_load(store) ELSE <<>>

restart ==
    /\ scheduled_stories' = load_scheduled_stories
    /\ jobs' = {}
    /\ execs' = {}
    /\ caller' = Idle
    /\ last' = Event("restart", 0, 0, 0, "ok")
    /\ UNCHANGED <<store_exists, store, starts, cancelled_ok>>

-----------------------------------------------------------------------------

Next ==
    \/ \E m \in Paths, t \in Times, c \in Captions : schedule_story(m, t, c)
    \/ \E i \in StoryIds : cancel_scheduled_story(i)
    \/ cancel_write
    \/ \E i \in StoryIds, t \in Times \cup {NoTime}, c \in Captions \cup {NoCaption} :
          modify_scheduled_story(i, t, c)
    \/ \E j \in jobs : timer_fires(j)
    \/ \E e \in execs, o \in {"id", "no_id", "error"}, err \in ErrorTexts :
          upload_media(e, o, err)
    \/ \E e \in execs, o \in {"ok", "error"}, err \in ErrorTexts :
          create_story(e, o, err)
    \/ restart

Spec == Init /\ [][Next]_vars

-----------------------------------------------------------------------------
(* Vocabulary of the properties *)

Status(l, p) == l[p].status

Positions == 1..Len(scheduled_stories)

\* the store holds exactly the list as it is after the step
Persisted == store_exists' /\ store' = json_dump(scheduled_stories')

\* some post with this id is in status scheduled
HasScheduled(story_id) ==
    \E p \in Positions : scheduled_stories[p].id = story_id
                         /\ Status(scheduled_stories, p) = "scheduled"

\* no post has this id, or a post with this id is posted, failed or cancelled
UnknownOrTerminal(story_id) ==
    \/ \A p \in Positions : scheduled_stories[p].id # story_id
    \/ \E p \in Positions : scheduled_stories[p].id = story_id
                            /\ Status(scheduled_stories, p) \in Terminal

JobsOf(js, story_id) == {j \in js : j.id = str(story_id)}

-----------------------------------------------------------------------------
(* C1: across schedule, cancel, modify and post_story steps a post's status
   changes only from scheduled to posted, failed or cancelled, and a post that
   is posted, failed or cancelled keeps its status, also when post_story was
   already running when cancel ran. *)
C1_StatusOneWay ==
    [][last'.op # "restart" =>
        \A p \in Positions :
            /\ p <= Len(scheduled_stories')
            /\ Status(scheduled_stories', p) # Status(scheduled_stories, p) =>
                  /\ Status(scheduled_stories, p) = "scheduled"
                  /\ Status(scheduled_stories', p) \in Terminal]_vars

(* C2: cancel on a post in status scheduled returns True, sets the status to
   cancelled, removes the pending job of that id and persists; once cancel has
   returned True, post_story is never started for that id. *)
C2_CancelScheduled ==
    [][/\ (caller.op = "cancel" /\ last'.op = "cancel") =>
            /\ last'.result = "True"
            /\ Status(scheduled_stories', last'.pos) = "cancelled"
            /\ JobsOf(jobs', last'.id) = {}
            /\ Persisted
       /\ last'.op = "fire" => last'.id \notin cancelled_ok]_vars

(* C3: cancel returns False and leaves the list, the store and the jobs as
   they are whenever no post has the id or the post with the id is posted,
   failed or cancelled. *)
C3_CancelFalseNoEffect ==
    [][(caller = Idle /\ last'.op = "cancel" /\ UnknownOrTerminal(last'.id)) =>
            /\ last'.result = "False"
            /\ UNCHANGED <<scheduled_stories, store_exists, store, jobs>>]_vars

\* cancel has returned False for a post that is posted, failed or cancelled
C3_Witness ==
    /\ last.op = "cancel"
    /\ last.result = "False"
    /\ \E p \in Positions : /\ scheduled_stories[p].id = last.id
                            /\ Status(scheduled_stories, p) \in Terminal

(* C4: when post_story runs for a scheduled post and the upload response has
   no media id, the post's status becomes failed with a non-empty error. *)
C4_NoIdFails ==
    [][(/\ last'.op = "upload"
        /\ last'.result = "no_id"
        /\ Status(scheduled_stories, last'.pos) = "scheduled") =>
            /\ Status(scheduled_stories', last'.pos) = "failed"
            /\ "error" \in DOMAIN scheduled_stories'[last'.pos]
            /\ scheduled_stories'[last'.pos].error # ""]_vars

(* C5: post_story ends with status posted and the store persisted exactly
   when the upload and the create-story call both succeed; when the upload
   raises, or the upload succeeds and create-story raises, it ends with status
   failed and an error text, the store persisted and the exception re-raised. *)
C5_ExecuteOutcome ==
    [][last'.op \in {"upload", "publish"} /\ last'.result # "id" =>
        LET p == last'.pos
            after == scheduled_stories'[p]
            both_ok == last'.op = "publish" /\ last'.result = "returned"
        IN  /\ both_ok <=> after.status = "posted"
            /\ both_ok => Persisted
            /\ last'.result = "raised" <=>
                  (after.status = "failed" /\ "error" \in DOMAIN after)
            /\ last'.result = "raised" =>
                  after.error \in ErrorTexts /\ Persisted]_vars

\* the upload succeeded, create-story raised, and the post is failed
C5_Witness ==
    /\ last.op = "publish"
    /\ last.result = "raised"
    /\ Status(scheduled_stories, last.pos) = "failed"
    /\ store = json_dump(scheduled_stories)

(* C6: schedule with a media path that names no existing file raises
   FileNotFoundError and changes nothing: no record appended, the store not
   written, no job registered. *)
C6_ScheduleMissingFile ==
    [][\A m \in Paths \ ExistingFiles, t \in Times, c \in Captions :
          schedule_story(m, t, c) =>
              /\ last'.result = "FileNotFoundError"
              /\ UNCHANGED <<scheduled_stories, store_exists, store, jobs>>]_vars

\* schedule has raised FileNotFoundError with posts and jobs present
C6_Witness ==
    /\ last.op = "schedule"
    /\ last.result = "FileNotFoundError"
    /\ scheduled_stories # <<>>
    /\ jobs # {}

(* C7: a schedule call that returns gives back a record with status scheduled
   that is the last element of the list, is contained in the store, and has
   exactly one pending job under its id. *)
C7_ScheduleReturns ==
    [][last'.op = "schedule" /\ last'.result = "returned" =>
        LET p == last'.pos
            record == scheduled_stories'[p]
            loaded == json_load(store')
        IN  /\ p = Len(scheduled_stories')
            /\ Len(scheduled_stories') = Len(scheduled_stories) + 1
            /\ record.status = "scheduled"
            /\ store_exists'
            /\ \E i \in 1..Len(loaded) : loaded[i] = record
            /\ Cardinality(JobsOf(jobs', record.id)) = 1
            /\ \A j \in JobsOf(jobs', record.id) : j.arg = p]_vars

\* schedule has returned the second record of the list
C7_Witness ==
    /\ last.op = "schedule"
    /\ last.result = "returned"
    /\ last.pos = 2
    /\ Len(scheduled_stories) = 2

(* C8: modify with a new time on a scheduled post replaces the job of that id:
   when it returns there is exactly one pending job for the id, set to
   new_time, and the stored scheduled_time is new_time; post_story starts at
   most once per id and only at the time stored last, never at a replaced one. *)
C8_ModifyReplacesTimer ==
    [][/\ (last'.op = "modify" /\ last'.result = "returned" /\ last'.time # NoTime) =>
            /\ Cardinality(JobsOf(jobs', last'.id)) = 1
            /\ \A j \in JobsOf(jobs', last'.id) : j.run_date = last'.time
            /\ scheduled_stories'[last'.pos].scheduled_time = isoformat(last'.time)
       /\ last'.op = "fire" =>
            /\ starts[last'.id] = 0
            /\ \A j \in jobs \ jobs' :
                  isoformat(j.run_date) = scheduled_stories[last'.pos].scheduled_time
                  ]_vars

\* modify has returned after moving a pending job to new_time
C8_Witness ==
    /\ last.op = "modify"
    /\ last.result = "returned"
    /\ last.time # NoTime
    /\ \E j \in JobsOf(jobs, last.id) : j.run_date = last.time
    /\ scheduled_stories[last.pos].scheduled_time = isoformat(last.time)
    /\ store = json_dump(scheduled_stories)

(* C9: modify raises ValueError (NotFound) whenever no post with the id is in
   status scheduled, and then the list, the store and the jobs are unchanged. *)
C9_ModifyNotFound ==
    [][last'.op = "modify" /\ ~HasScheduled(last'.id) =>
            /\ last'.result = "ValueError"
            /\ UNCHANGED <<scheduled_stories, store_exists, store, jobs>>]_vars

\* modify has raised ValueError for a post that is posted, failed or cancelled
C9_Witness ==
    /\ last.op = "modify"
    /\ last.result = "ValueError"
    /\ \E p \in Positions : /\ scheduled_stories[p].id = last.id
                            /\ Status(scheduled_stories, p) \in Terminal

(* C10: no two records of the list share an id; the k-th record has id k. *)
C10_IdsArePositions ==
    /\ \A k \in Positions : scheduled_stories[k].id = k
    /\ \A a, b \in Positions :
          scheduled_stories[a].id = scheduled_stories[b].id => a = b

\* two records in a list that was reloaded from the store
C10_Witness ==
    /\ last.op = "restart"
    /\ Len(scheduled_stories) = 2

(* C11: whenever no operation is in progress (no caller operation, no
   post_story in flight), the content of the store equals the in-memory list. *)
C11_StoreEqualsList ==
    (caller = Idle /\ execs = {}) =>
        /\ store_exists => json_load(store) = scheduled_stories
        /\ ~store_exists => scheduled_stories = <<>>

(* C12: persisting the list and reloading it gives an identical list: what a
   step writes to the store loads back as the list it wrote, a restart loads
   exactly what the store holds, and without a store the loaded list is
   empty. *)
C12_RoundTrip ==
    [][/\ (store_exists' /\ store' = json_dump(scheduled_stories')) =>
            json_load(store') = scheduled_stories'
       /\ last'.op = "restart" =>
            IF store_exists
            THEN /\ json_dump(scheduled_stories') = store
                 /\ Len(scheduled_stories') = Len(store)
                 /\ \A p \in 1..Len(store) :
                       \A i \in 1..Len(store[p]) :
                          /\ store[p][i][1] \in DOMAIN scheduled_stories'[p]
                          /\ scheduled_stories'[p][store[p][i][1]] = store[p][i][2]
            ELSE scheduled_stories' = <<>>]_vars

\* a restart has loaded two records, one of them with an error item
C12_Witness ==
    /\ last.op = "restart"
    /\ Len(scheduled_stories) = 2
    /\ \E p \in Positions : "error" \in DOMAIN scheduled_stories[p]
    /\ \E p \in Positions : "error" \notin DOMAIN scheduled_stories[p]

(* C13: in every reachable state a record has an error item only if its
   status is failed. *)
C13_ErrorOnlyIfFailed ==
    \A p \in Positions :
        "error" \in DOMAIN scheduled_stories[p] =>
            Status(scheduled_stories, p) = "failed"

(* C14: post_story is started at most once per post id, and never for a post
   whose status is failed. *)
C14_NoRetry ==
    [][last'.op = "fire" =>
            /\ starts[last'.id] = 0
            /\ starts'[last'.id] = 1
            /\ \A p \in Positions :
                  scheduled_stories[p].id = last'.id =>
                      Status(scheduled_stories, p) # "failed"]_vars

\* a post has failed after its one start and stays without job or callback
C14_Witness ==
    /\ \E p \in Positions :
          /\ Status(scheduled_stories, p) = "failed"
          /\ starts[scheduled_stories[p].id] = 1
          /\ JobsOf(jobs, scheduled_stories[p].id) = {}
    /\ last.op = "fire"

(* C15: a modify that returns changes only what was passed: with a
   new_caption (the empty string included) the caption becomes new_caption,
   without one it stays; without a new_time the stored scheduled_time and the
   jobs stay; id, media_path and status of the record, and every other record,
   stay in all cases. *)
C15_ModifyFrame ==
    [][\A i \in StoryIds, t \in Times \cup {NoTime}, c \in Captions \cup {NoCaption} :
          (modify_scheduled_story(i, t, c) /\ last'.result = "returned") =>
              LET p == last'.pos
                  before == scheduled_stories[p]
                  after == scheduled_stories'[p]
              IN  /\ Len(scheduled_stories') = Len(scheduled_stories)
                  /\ after.caption = IF c # NoCaption THEN c ELSE before.caption
                  /\ t = NoTime =>
                        /\ after.scheduled_time = before.scheduled_time
                        /\ jobs' = jobs
                  /\ after.id = before.id
                  /\ after.media_path = before.media_path
                  /\ after.status = before.status
                  /\ DOMAIN after = DOMAIN before
                  /\ \A q \in Positions \ {p} :
                        scheduled_stories'[q] = scheduled_stories[q]]_vars

\* modify has returned after setting the caption "hi" to the empty string,
\* with another record in the list
C15_Witness ==
    /\ last.op = "modify"
    /\ last.result = "returned"
    /\ last.time = NoTime
    /\ Len(scheduled_stories) = 2
    /\ scheduled_stories[last.pos].caption = ""
    /\ \E j \in JobsOf(jobs, last.id) :
          isoformat(j.run_date) = scheduled_stories[last.pos].scheduled_time

(* C16: records are never deleted or reordered: after every step the list
   before it is, position for position and id for id, a prefix of the list
   after it, and only schedule makes it longer, by exactly one. *)
C16_AppendOnly ==
    [][/\ Len(scheduled_stories') >= Len(scheduled_stories)
       /\ \A p \in Positions :
             /\ scheduled_stories'[p].id = scheduled_stories[p].id
             /\ scheduled_stories'[p].media_path = scheduled_stories[p].media_path
       /\ Len(scheduled_stories') # Len(scheduled_stories) =>
             /\ last'.op = "schedule"
             /\ Len(scheduled_stories') = Len(scheduled_stories) + 1]_vars

\* two records, in creation order, after a restart
C16_Witness ==
    /\ Len(scheduled_stories) = 2
    /\ scheduled_stories[1].id = 1
    /\ scheduled_stories[2].id = 2
    /\ Status(scheduled_stories, 1) \in Terminal
    /\ last.op = "restart"

(* C17: whenever no caller operation is in progress, a job is pending for an
   id only if the post with that id has status scheduled, and at most one job
   is pending per id. *)
C17_TimerOnlyIfScheduled ==
    caller = Idle =>
        /\ \A j \in jobs :
              /\ j.arg \in Positions
              /\ str(scheduled_stories[j.arg].id) = j.id
              /\ Status(scheduled_stories, j.arg) = "scheduled"
        /\ \A j, k \in jobs : j.id = k.id => j = k

\* cancel has returned True for one post while the other still has its job
C17_Witness ==
    /\ last.op = "cancel"
    /\ last.result = "True"
    /\ jobs # {}
    /\ Status(scheduled_stories, last.pos) = "cancelled"

(* C18: every post with status scheduled has a pending job or a post_story in
   flight (so that, with timers firing and calls returning, it ends posted or
   failed), also when it was loaded from the store and when its post_story
   has already run. *)
C18_ScheduledHasTimer ==
    \A p \in Positions :
        Status(scheduled_stories, p) = "scheduled" =>
            \/ \E j \in jobs : j.arg = p
            \/ \E e \in execs : e.arg = p

(* C19: cancel and modify are all-or-nothing: when either raises (ValueError,
   or JobLookupError from the scheduler), the record's status, scheduled_time
   and caption and the store are as before the call. *)
C19_AllOrNothing ==
    [][(/\ last'.op \in {"cancel", "modify"}
        /\ last'.result \in {"ValueError", "JobLookupError"}) =>
            /\ UNCHANGED <<store_exists, store>>
            /\ last'.pos \in Positions =>
                  LET before == scheduled_stories[last'.pos]
                      after == scheduled_stories'[last'.pos]
                  IN  /\ after.status = before.status
                      /\ after.scheduled_time = before.scheduled_time
                      /\ after.caption = before.caption]_vars

====
